---- MODULE Spec2Model ----
(***************************************************************************)
(* Model of the Gemini image-edit service of Try-outfits:                  *)
(*   editImageWithGemini (quota-aware version, src/unnamed/part_000, and   *)
(*   the plain version, src/services/geminiService.ts) and the part of     *)
(*   App.handleGenerate that consumes its outcome (src/App.tsx).           *)
(*                                                                         *)
(* JavaScript values are tagged records; strings are TLA+ strings, read    *)
(* with Len, SubSeq, Head, Tail and \o.  One behaviour of the model is one *)
(* call: Init draws the arguments and what the remote service will do,     *)
(* the actions are the steps of the call.                                  *)
(***************************************************************************)
EXTENDS Integers, Sequences, FiniteSets, Bags, TLC

VARIABLES pc, service, args, remote, contents, outcome, generatedImage, processingState,
          selectedFile, previewUrl, referenceFile, referenceUrl, prompt,
          readers, calls, generatedFrom, invocations

\* The state of App beyond the result and the processing state: the selected
\* files and their previews, the prompt, the FileReaders of the uploaders that
\* have not finished, the handleGenerate calls (running or finished), and two
\* history variables: the source file of the call that set generatedImage, and
\* the number of handleGenerate invocations made so far.
appVars ==
  <<selectedFile, previewUrl, referenceFile, referenceUrl, prompt,
    readers, calls, generatedFrom, invocations>>

vars ==
  <<pc, service, args, remote, contents, outcome, generatedImage, processingState,
    selectedFile, previewUrl, referenceFile, referenceUrl, prompt,
    readers, calls, generatedFrom, invocations>>

(***************************************************************************)
(* JavaScript values                                                       *)
(***************************************************************************)
Undef == [t |-> "undefined"]

Null == [t |-> "null"]

Num(n) == [t |-> "number", v |-> n]

Str(s) == [t |-> "string", v |-> s]

Arr(s) == [t |-> "array", v |-> s]

\* ToBoolean: undefined, null, 0 and "" are falsy; arrays and objects are truthy.
Truthy(x) ==
  CASE x.t = "undefined" -> FALSE
    [] x.t = "null" -> FALSE
    [] x.t = "number" -> x.v # 0
    [] x.t = "string" -> x.v # ""
    [] OTHER -> TRUE

\* a || b
Or(a, b) == IF Truthy(a) THEN a ELSE b

\* String.prototype.includes
Includes(s, sub) ==
  \E i \in 0..(Len(s) - Len(sub)) : SubSeq(s, i + 1, i + Len(sub)) = sub

\* String.prototype.startsWith
StartsWith(s, pre) == Len(s) >= Len(pre) /\ SubSeq(s, 1, Len(pre)) = pre

(***************************************************************************)
(* Request building: the parts array                                       *)
(***************************************************************************)
InlinePart(data, mimeType) ==
  [inlineData |-> [t |-> "object", data |-> data, mimeType |-> mimeType], text |-> Undef]

TextPart(text) == [inlineData |-> Undef, text |-> text]

\* parts with the reference image never added.
partsDropReference(a) ==
  <<InlinePart(a.base64Image, a.mimeType), TextPart(a.prompt)>>

parts(a) ==
  <<InlinePart(a.base64Image, a.mimeType)>>
    \o (IF Truthy(a.referenceImageBase64) /\ Truthy(a.referenceMimeType)
        THEN <<InlinePart(a.referenceImageBase64, a.referenceMimeType)>>
        ELSE <<>>)
    \o <<TextPart(a.prompt)>>

(***************************************************************************)
(* Errors and responses                                                    *)
(***************************************************************************)
\* An error object as the catch block reads it: error.error, .code, .status,
\* .message, .details (each possibly undefined).
ErrObject(error, code, status, message, details) ==
  [t |-> "object", error |-> error, code |-> code, status |-> status,
   message |-> message, details |-> details]

\* new Error(message)
NewError(message) == ErrObject(Undef, Undef, Undef, Str(message), Undef)

\* The TypeError of reading .content of response.candidates[0] when it is undefined.
TypeErrorContent == NewError("Cannot read properties of undefined (reading 'content')")

Return(value) == [kind |-> "return", value |-> value]

Throw(error) == [kind |-> "throw", error |-> error]

Candidate(content) == [t |-> "object", content |-> content]

Content(partsValue) == [t |-> "object", parts |-> partsValue]

Response(candidates) == [t |-> "object", candidates |-> candidates]

DataUrlPrefix == "data:image/png;base64,"

RefusedPrefix == "Gemini refused to generate an image. Reason: "

NoImageMessage == "No image data received from Gemini."

FailedMessage == "Failed to edit image using Gemini."

\* Index of the first TRUE of a sequence of booleans, 0 when there is none.
FirstTrue(flags) ==
  IF \E i \in 1..Len(flags) : flags[i]
  THEN CHOOSE i \in 1..Len(flags) : flags[i] /\ \A j \in 1..(i - 1) : ~flags[j]
  ELSE 0

\* Index of the last TRUE of a sequence of booleans, 0 when there is none.
LastTrue(flags) ==
  IF \E i \in 1..Len(flags) : flags[i]
  THEN CHOOSE i \in 1..Len(flags) : flags[i] /\ \A j \in (i + 1)..Len(flags) : ~flags[j]
  ELSE 0

HasInlineData(part) == Truthy(part.inlineData)

HasText(part) == Truthy(part.text)

\* response.candidates?.[0]?.content?.parts as a sequence (empty when any link is missing)
optionalParts(response) ==
  IF ~Truthy(response.candidates) THEN <<>>
  ELSE IF Len(response.candidates.v) = 0 THEN <<>>
  ELSE IF ~Truthy(response.candidates.v[1].content) THEN <<>>
  ELSE IF ~Truthy(response.candidates.v[1].content.parts) THEN <<>>
  ELSE response.candidates.v[1].content.parts.v

\* The text fallback and the final throw of the try block.
textFallback(response) ==
  LET ps == optionalParts(response)
      i == FirstTrue([k \in 1..Len(ps) |-> HasText(ps[k])])
  IN IF i # 0
     THEN Throw(NewError(RefusedPrefix \o ps[i].text.v))
     ELSE Throw(NewError(NoImageMessage))

\* findImage keeping the last image part instead of the first.
findImageLast(response) ==
  LET ps == optionalParts(response)
      i == LastTrue([k \in 1..Len(ps) |-> HasInlineData(ps[k])])
  IN IF i # 0 THEN Return(DataUrlPrefix \o ps[i].inlineData.data.v)
     ELSE textFallback(response)

\* The scan for the first image part; reading candidates[0].content of an empty
\* candidates array raises a TypeError.
findImage(response) ==
  IF ~Truthy(response.candidates) THEN textFallback(response)
  ELSE IF Len(response.candidates.v) = 0 THEN Throw(TypeErrorContent)
  ELSE LET ps == optionalParts(response)
           i == FirstTrue([k \in 1..Len(ps) |-> HasInlineData(ps[k])])
       IN IF i # 0 THEN Return(DataUrlPrefix \o ps[i].inlineData.data.v)
          ELSE textFallback(response)

(***************************************************************************)
(* Numbers: parseFloat, Math.floor, Math.ceil, %, and number-to-string     *)
(*                                                                         *)
(* A parsed number is NaN or a multiple of 1/Scale, kept as [nan, v] with  *)
(* v the value times Scale.  With at most two fractional digits the        *)
(* floor, ceil and remainder taken below are those of the double.          *)
(***************************************************************************)
Scale == 100

SecondsPerMinute == 60

NaN == [nan |-> TRUE, v |-> 0]

Fin(v) == [nan |-> FALSE, v |-> v]

Digits == <<"0", "1", "2", "3", "4", "5", "6", "7", "8", "9">>

IsDigit(c) == \E i \in 1..10 : Digits[i] = c

DigitVal(c) == (CHOOSE i \in 1..10 : Digits[i] = c) - 1

\* String.prototype.replace(pattern, "") with a one-character string pattern:
\* the first occurrence is removed.
RECURSIVE replaceFirst(_, _)
replaceFirst(s, c) ==
  IF s = "" THEN ""
  ELSE IF Head(s) = c THEN Tail(s)
  ELSE Head(s) \o replaceFirst(Tail(s), c)

RECURSIVE trimStart(_)
trimStart(s) == IF s # "" /\ Head(s) = " " THEN trimStart(Tail(s)) ELSE s

\* Length of the longest prefix of s made of decimal digits.
RECURSIVE digitRun(_)
digitRun(s) == IF s # "" /\ IsDigit(Head(s)) THEN 1 + digitRun(Tail(s)) ELSE 0

\* Value of a string of decimal digits.
RECURSIVE digitsValue(_)
digitsValue(s) ==
  IF s = "" THEN 0
  ELSE 10 * digitsValue(SubSeq(s, 1, Len(s) - 1)) + DigitVal(SubSeq(s, Len(s), Len(s)))

\* The fraction digits, as a multiple of 1/Scale (two digits are kept).
fractionValue(s) ==
  IF Len(s) = 0 THEN 0
  ELSE IF Len(s) = 1 THEN 10 * DigitVal(s)
  ELSE digitsValue(SubSeq(s, 1, 2))

\* parseFloat of an unsigned decimal literal prefix: digits [. digits] or . digits
parseUnsigned(s) ==
  LET n == digitRun(s)
      rest == SubSeq(s, n + 1, Len(s))
      m == IF rest # "" /\ Head(rest) = "." THEN digitRun(Tail(rest)) ELSE 0
  IN IF n = 0 /\ m = 0 THEN NaN
     ELSE Fin(Scale * digitsValue(SubSeq(s, 1, n)) + fractionValue(SubSeq(rest, 2, m + 1)))

\* parseFloat: leading blanks are skipped, then an optional sign and the
\* longest decimal literal; NaN when there is none.  (Exponents and "Infinity"
\* are not modelled; no input of the model has them.)
parseFloat(str) ==
  LET s == trimStart(str)
  IN IF s # "" /\ Head(s) = "-"
     THEN LET u == parseUnsigned(Tail(s)) IN IF u.nan THEN NaN ELSE Fin(0 - u.v)
     ELSE IF s # "" /\ Head(s) = "+" THEN parseUnsigned(Tail(s))
     ELSE parseUnsigned(s)

\* a % b for b > 0: the result has the sign of the dividend.
jsRemainder(a, b) == IF a >= 0 THEN a % b ELSE 0 - ((0 - a) % b)

\* Math.floor(x / unit) and Math.ceil(x / unit) of a scaled value, as integers.
floorDiv(x, unit) == x \div unit

ceilDiv(x, unit) == 0 - ((0 - x) \div unit)

RECURSIVE natToString(_)
natToString(n) ==
  IF n < 10 THEN Digits[n + 1]
  ELSE natToString(n \div 10) \o Digits[(n % 10) + 1]

\* `${x}` for an integer-valued number or NaN
numberToString(x) ==
  IF x.nan THEN "NaN"
  ELSE IF x.v < 0 THEN "-" \o natToString(0 - x.v)
  ELSE natToString(x.v)

(***************************************************************************)
(* The catch block of the quota-aware editImageWithGemini                  *)
(***************************************************************************)
QuotaCode == 429

ResourceExhausted == "RESOURCE_EXHAUSTED"

RetryInfoType == "type.googleapis.com/google.rpc.RetryInfo"

Detail(type, retryDelay) == [t |-> "object", type |-> type, retryDelay |-> retryDelay]

errorObj(error) == Or(error.error, error)

errorCode(error) == Or(errorObj(error).code, error.code)

errorStatus(error) == Or(errorObj(error).status, error.status)

\* errorMessage without the fall-back to the outer error's message.
errorMessageInnerOnly(error) == Or(errorObj(error).message, Str(""))

errorMessage(error) == Or(Or(errorObj(error).message, error.message), Str(""))

errorDetails(error) == Or(Or(errorObj(error).details, error.details), Arr(<<>>))

\* isQuota without the status check.
isQuotaNoStatus(error) ==
  \/ errorCode(error) = Num(QuotaCode)
  \/ Includes(errorMessage(error).v, "quota")
  \/ Includes(errorMessage(error).v, "Quota exceeded")

\* The condition of the quota branch.
isQuota(error) ==
  \/ errorCode(error) = Num(QuotaCode)
  \/ errorStatus(error) = Str(ResourceExhausted)
  \/ Includes(errorMessage(error).v, "quota")
  \/ Includes(errorMessage(error).v, "Quota exceeded")

IsRetryInfo(detail) == detail.type = Str(RetryInfoType) /\ Truthy(detail.retryDelay)

\* The retry delay of the first retry-info detail, null when there is none.
retryAfter(error) ==
  LET ds == errorDetails(error).v
      i == FirstTrue([k \in 1..Len(ds) |-> IsRetryInfo(ds[k])])
  IN IF i # 0 THEN ds[i].retryDelay ELSE Null

seconds(delay) == parseFloat(replaceFirst(delay, "s"))

minutes(sec) == IF sec.nan THEN NaN ELSE Fin(floorDiv(sec.v, SecondsPerMinute * Scale))

\* remainingSeconds rounding down instead of up.
remainingSecondsFloor(sec) ==
  IF sec.nan THEN NaN
  ELSE Fin(floorDiv(jsRemainder(sec.v, SecondsPerMinute * Scale), Scale))

remainingSeconds(sec) ==
  IF sec.nan THEN NaN
  ELSE Fin(ceilDiv(jsRemainder(sec.v, SecondsPerMinute * Scale), Scale))

ceilSeconds(sec) == IF sec.nan THEN NaN ELSE Fin(ceilDiv(sec.v, Scale))

\* x > k for a number that may be NaN (a comparison with NaN is false)
Greater(x, k) == ~x.nan /\ x.v > k

QuotaHead == "API quota exceeded."

FreeTier == " You've reached the free tier limit."

PleaseWait == " Please wait "

QuotaTail == " before trying again, or upgrade your plan at https://ai.google.dev/pricing"

GenericQuotaMessage == QuotaHead \o FreeTier \o PleaseWait \o "a few minutes" \o QuotaTail

\* The message of the minutes > 0 branch.
minutesMessage(sec) ==
  LET m == minutes(sec)
      r == remainingSeconds(sec)
  IN QuotaHead \o FreeTier \o PleaseWait
       \o numberToString(m) \o " minute" \o (IF Greater(m, 1) THEN "s" ELSE "") \o " "
       \o (IF Greater(r, 0)
           THEN "and " \o numberToString(r) \o " second" \o (IF Greater(r, 1) THEN "s" ELSE "")
           ELSE "")
       \o QuotaTail

\* The message of the else branch.
secondsMessage(sec) ==
  LET c == ceilSeconds(sec)
  IN QuotaHead \o PleaseWait
       \o numberToString(c) \o " second" \o (IF Greater(c, 1) THEN "s" ELSE "")
       \o QuotaTail

\* The message thrown by the quota branch.
quotaMessage(error) ==
  LET ra == retryAfter(error)
  IN IF Truthy(ra)
     THEN LET sec == seconds(ra.v)
          IN IF Greater(minutes(sec), 0) THEN minutesMessage(sec) ELSE secondsMessage(sec)
     ELSE GenericQuotaMessage

\* The message of the error the catch block of src/unnamed/part_000 throws.
catchQuotaAware(error) ==
  IF isQuota(error) THEN quotaMessage(error)
  ELSE IF Truthy(errorMessage(error)) /\ Includes(errorMessage(error).v, "quota")
  THEN GenericQuotaMessage
  ELSE Or(errorMessage(error), Str(FailedMessage)).v

\* The message of the error the catch block of src/services/geminiService.ts throws.
catchPlain(error) == Or(error.message, Str(FailedMessage)).v

QuotaAware == "part_000"

Plain == "services/geminiService.ts"

\* What the awaited generateContent call does: resolve with a response or reject.
tryBlock(rem) ==
  IF rem.kind = "response" THEN findImage(rem.response) ELSE Throw(rem.error)

\* The outcome of editImageWithGemini once the remote call has settled.
editImageWithGemini(svc, rem) ==
  LET r == tryBlock(rem)
  IN IF r.kind = "return" THEN [kind |-> "return", value |-> r.value]
     ELSE [kind |-> "throw",
           value |-> IF svc = QuotaAware THEN catchQuotaAware(r.error) ELSE catchPlain(r.error)]

(***************************************************************************)
(* Inputs: the arguments of a call, and what the remote service does       *)
(***************************************************************************)
MaxParts == 3

MaxDelaySeconds == 130

Request(base64Image, mimeType, instruction, referenceImageBase64, referenceMimeType) ==
  [base64Image |-> base64Image, mimeType |-> mimeType, prompt |-> instruction,
   referenceImageBase64 |-> referenceImageBase64, referenceMimeType |-> referenceMimeType]

Requests ==
  {Request(b, m, p, rb, rm) :
     b \in {Str("AAAA"), Str("")},
     m \in {Str("image/png"), Str("image/jpeg")},
     p \in {Str("Remove the background"), Str("  red hoodie ")},
     rb \in {Undef, Null, Str(""), Str("BBBB")},
     rm \in {Undef, Null, Str(""), Str("image/webp")}}

BasicRequests ==
  {Request(Str("AAAA"), Str("image/png"), Str("Remove the background"), Null, Undef),
   Request(Str("AAAA"), Str("image/jpeg"), Str("Remove the background"),
           Str("BBBB"), Str("image/webp"))}

\* The parts a response may carry: images, texts (one mentioning a quota, one
\* empty) and a part with neither.
ResponseParts ==
  {InlinePart(Str("iVBOR"), Str("image/png")),
   InlinePart(Str("R0lGOD"), Str("image/jpeg")),
   TextPart(Str("I cannot edit this photo.")),
   TextPart(Str("Your quota of edits is used up.")),
   TextPart(Str("")),
   [inlineData |-> Undef, text |-> Undef]}

PartLists == UNION {[1..n -> ResponseParts] : n \in 0..MaxParts}

ExtraCandidate == Candidate(Content(Arr(<<InlinePart(Str("UklGR"), Str("image/webp"))>>)))

Responses ==
  {Response(Undef), Response(Arr(<<>>)),
   Response(Arr(<<Candidate(Undef)>>)),
   Response(Arr(<<Candidate(Content(Undef))>>))}
  \cup {Response(Arr(<<Candidate(Content(Arr(ps)))>>)) : ps \in PartLists}
  \cup {Response(Arr(<<Candidate(Content(Arr(ps))), ExtraCandidate>>)) :
          ps \in {ps \in PartLists : Len(ps) <= 1}}

Codes == {Undef, Num(QuotaCode), Num(500)}

Statuses == {Undef, Str(ResourceExhausted), Str("INTERNAL")}

Messages ==
  {Undef, Str(""), Str("rate limited"), Str("Quota exceeded for this resource"),
   Str("You exceeded your current quota"), Str("Network error")}

\* Errors with every combination of code, status and message, flat or with
\* the payload nested under .error.
FieldErrors ==
  {ErrObject(Undef, c, st, m, Undef) : c \in Codes, st \in Statuses, m \in Messages}
  \cup {ErrObject(ErrObject(Undef, ic, ist, im, Undef), c, st, m, Undef) :
          ic \in Codes, ist \in Statuses, im \in Messages,
          c \in Codes, st \in Statuses, m \in Messages}

OtherDetail == Detail(Str("type.googleapis.com/google.rpc.Help"), Undef)

Retry(delay) == Detail(Str(RetryInfoType), Str(delay))

DetailLists ==
  {Undef, Arr(<<>>), Arr(<<OtherDetail>>), Arr(<<Retry("45s")>>),
   Arr(<<OtherDetail, Retry("125s")>>), Arr(<<Retry(""), Retry("7s")>>),
   Arr(<<Detail(Str(RetryInfoType), Undef)>>),
   Arr(<<Detail(Str("type.googleapis.com/google.rpc.Help"), Str("30s"))>>)}

\* Rate-limit errors with every placement of the detail list.
DetailErrors ==
  {ErrObject(Undef, Num(QuotaCode), Undef, Str("rate limited"), d) : d \in DetailLists}
  \cup {ErrObject(ErrObject(Undef, Num(QuotaCode), Undef, Str("rate limited"), di),
                  Undef, Undef, Undef, d) : di \in DetailLists, d \in DetailLists}

\* Delays "<n>s", "<n>.5s", "<n>.88s" for n up to MaxDelaySeconds.
Fractions == {"", ".5", ".88"}

DelayText(n, f) == natToString(n) \o f \o "s"

WellFormedDelays == {DelayText(n, f) : n \in 0..MaxDelaySeconds, f \in Fractions}

MalformedDelays == {"abc", "s", "soon", "5m", "12", "-5s", " 7s", "1.2.3s", "s30"}

DelayStrings == WellFormedDelays \cup MalformedDelays

\* Rate-limit errors carrying each delay, flat and nested.
DelayErrors ==
  {ErrObject(Undef, Num(QuotaCode), Undef, Str("rate limited"), Arr(<<Retry(d)>>)) :
     d \in DelayStrings}
  \cup {ErrObject(ErrObject(Undef, Undef, Str(ResourceExhausted), Undef,
                            Arr(<<OtherDetail, Retry(d)>>)),
                  Undef, Undef, Str("got status: 429"), Undef) : d \in DelayStrings}

Errors == FieldErrors \cup DetailErrors \cup DelayErrors

Resolves(response) == [kind |-> "response", response |-> response, error |-> Undef]

Rejects(error) == [kind |-> "error", response |-> Undef, error |-> error]

Remotes == {Resolves(r) : r \in Responses} \cup {Rejects(e) : e \in Errors}

BasicRemotes ==
  {Resolves(Response(Arr(<<Candidate(Content(Arr(<<InlinePart(Str("iVBOR"), Str("image/png"))>>)))>>))),
   Resolves(Response(Arr(<<Candidate(Content(Arr(<<TextPart(Str("I cannot edit this photo."))>>)))>>))),
   Rejects(ErrObject(Undef, Num(QuotaCode), Undef, Str("rate limited"), Undef))}

\* Every request with the basic remote behaviours, and the basic requests with
\* every remote behaviour.
Inputs == (Requests \X BasicRemotes) \cup (BasicRequests \X Remotes)

(***************************************************************************)
(* The call as a state machine                                             *)
(***************************************************************************)
AppFallback == "Something went wrong. Please try a different prompt or image."

Pending == [kind |-> "pending", value |-> ""]

\* The part of App's state the single-call specification leaves alone.
AppUntouched ==
  /\ selectedFile = Null
  /\ previewUrl = Null
  /\ referenceFile = Null
  /\ referenceUrl = Null
  /\ prompt = ""
  /\ readers = <<>>
  /\ calls = <<>>
  /\ generatedFrom = Null
  /\ invocations = 0

\* handleGenerate has passed its guard and set the processing state; the
\* file reads are pending.
Init ==
  /\ pc = "start"
  /\ service \in {QuotaAware, Plain}
  /\ \E in \in Inputs : args = in[1] /\ remote = in[2]
  /\ contents = <<>>
  /\ outcome = Pending
  /\ generatedImage = Null
  /\ processingState =
       [isLoading |-> TRUE, error |-> Null, statusMessage |-> "Processing your request..."]
  /\ AppUntouched

\* A file read fails: fileToBase64 rejects with an event that has no message.
fileReadError ==
  /\ pc = "start"
  /\ pc' = "done"
  /\ processingState' =
       [isLoading |-> FALSE, error |-> Or(Undef, Str(AppFallback)), statusMessage |-> ""]
  /\ UNCHANGED <<service, args, remote, contents, outcome, generatedImage>>
  /\ UNCHANGED appVars

\* editImageWithGemini up to its await: the parts are built and sent.
generateContent ==
  /\ pc = "start"
  /\ pc' = "awaiting"
  /\ contents' = parts(args)
  /\ UNCHANGED <<service, args, remote, outcome, generatedImage, processingState>>
  /\ UNCHANGED appVars

\* The remote call resolves: the rest of the try block, and the catch block
\* for what it throws.
remoteResolves ==
  /\ pc = "awaiting"
  /\ remote.kind = "response"
  /\ pc' = "settled"
  /\ outcome' = editImageWithGemini(service, remote)
  /\ UNCHANGED <<service, args, remote, contents, generatedImage, processingState>>
  /\ UNCHANGED appVars

\* The remote call rejects: the catch block.
remoteRejects ==
  /\ pc = "awaiting"
  /\ remote.kind = "error"
  /\ pc' = "settled"
  /\ outcome' = editImageWithGemini(service, remote)
  /\ UNCHANGED <<service, args, remote, contents, generatedImage, processingState>>
  /\ UNCHANGED appVars

\* handleGenerate after a successful call.
handleGenerateThen ==
  /\ pc = "settled"
  /\ outcome.kind = "return"
  /\ pc' = "done"
  /\ generatedImage' = Str(outcome.value)
  /\ processingState' = [isLoading |-> FALSE, error |-> Null, statusMessage |-> ""]
  /\ UNCHANGED <<service, args, remote, contents, outcome>>
  /\ UNCHANGED appVars

\* The catch block of handleGenerate.
handleGenerateCatch ==
  /\ pc = "settled"
  /\ outcome.kind = "throw"
  /\ pc' = "done"
  /\ processingState' =
       [isLoading |-> FALSE, error |-> Or(Str(outcome.value), Str(AppFallback)),
        statusMessage |-> ""]
  /\ UNCHANGED <<service, args, remote, contents, outcome, generatedImage>>
  /\ UNCHANGED appVars

Next ==
  \/ fileReadError
  \/ generateContent
  \/ remoteResolves
  \/ remoteRejects
  \/ handleGenerateThen
  \/ handleGenerateCatch

Spec == Init /\ [][Next]_vars

(***************************************************************************)
(* App: the handlers and the completions of their asynchronous work        *)
(***************************************************************************)
MaxGenerates == 2

MaxReaders == 1

File(name, type, data) == [t |-> "object", name |-> name, type |-> type, data |-> data]

SourceFiles == {File("a.png", "image/png", "AAAA"), File("c.jpg", "image/jpeg", "CCCC")}

ReferenceFiles == {File("b.webp", "image/webp", "BBBB")}

\* What the user may type: blanks only, or an instruction with blanks around it.
Prompts == {"  ", " red hoodie "}

\* FileReader.readAsDataURL: reader.result once the read has succeeded
readAsDataURL(file) == "data:" \o file.type \o ";base64," \o file.data

\* s.split(',')[0]
RECURSIVE beforeComma(_)
beforeComma(s) ==
  IF s = "" \/ Head(s) = "," THEN "" ELSE Head(s) \o beforeComma(Tail(s))

\* s.split(',')[1], undefined when s has no comma
splitSecond(s) ==
  LET n == Len(beforeComma(s))
  IN IF n = Len(s) THEN Undef ELSE Str(beforeComma(SubSeq(s, n + 2, Len(s))))

\* fileToBase64 of each file, when the read succeeds
base64Of == [file \in SourceFiles \cup ReferenceFiles |-> splitSecond(readAsDataURL(file))]

fileToBase64(file) == base64Of[file]

RECURSIVE trimEnd(_)
trimEnd(s) ==
  IF s # "" /\ SubSeq(s, Len(s), Len(s)) = " " THEN trimEnd(SubSeq(s, 1, Len(s) - 1)) ELSE s

\* String.prototype.trim
trim(s) == trimEnd(trimStart(s))

Loading == [isLoading |-> TRUE, error |-> Null, statusMessage |-> "Processing your request..."]

Idle == [isLoading |-> FALSE, error |-> Null, statusMessage |-> ""]

FailedWith(message) == [isLoading |-> FALSE, error |-> message, statusMessage |-> ""]

Reader(target, file) == [target |-> target, file |-> file]

\* callArguments with the prompt trimmed.
callArgumentsTrimmed(call) ==
  [base64Image |-> fileToBase64(call.selectedFile),
   mimeType |-> Str(call.selectedFile.type),
   prompt |-> Str(trim(call.prompt)),
   referenceImageBase64 |->
     IF Truthy(call.referenceFile) THEN fileToBase64(call.referenceFile) ELSE Null,
   referenceMimeType |->
     IF Truthy(call.referenceFile) THEN Str(call.referenceFile.type) ELSE Undef]

\* The arguments handleGenerate passes to editImageWithGemini.
callArguments(call) ==
  [base64Image |-> fileToBase64(call.selectedFile),
   mimeType |-> Str(call.selectedFile.type),
   prompt |-> Str(call.prompt),
   referenceImageBase64 |->
     IF Truthy(call.referenceFile) THEN fileToBase64(call.referenceFile) ELSE Null,
   referenceMimeType |->
     IF Truthy(call.referenceFile) THEN Str(call.referenceFile.type) ELSE Undef]

\* The call of editImageWithGemini made by a handleGenerate call: its
\* arguments are recorded and it waits for the remote service.
callService(call) ==
  [call EXCEPT !.pc = "service", !.requests = Append(@, callArguments(call))]

\* No handler has run yet.  App imports the service of services/geminiService.ts.
InitApp ==
  /\ pc = "app"
  /\ service = Plain
  /\ args = Null
  /\ remote = Null
  /\ contents = <<>>
  /\ outcome = Pending
  /\ generatedImage = Null
  /\ processingState = Idle
  /\ AppUntouched

ServiceUnchanged == UNCHANGED <<pc, service, args, remote, contents, outcome>>

\* The textarea's onChange, and the suggestion chips.
setPrompt ==
  /\ \E p \in Prompts : prompt' = p
  /\ prompt' # prompt
  /\ ServiceUnchanged
  /\ UNCHANGED <<generatedImage, processingState, selectedFile, previewUrl, referenceFile,
                 referenceUrl, readers, calls, generatedFrom, invocations>>

\* handleImageSelect; the uploader offers it while it shows no preview.
handleImageSelect ==
  /\ previewUrl = Null
  /\ BagCardinality(readers) < MaxReaders
  /\ \E f \in SourceFiles :
       /\ selectedFile' = f
       /\ readers' = readers (+) SetToBag({Reader("main", f)})
  /\ ServiceUnchanged
  /\ UNCHANGED <<generatedImage, processingState, previewUrl, referenceFile, referenceUrl,
                 prompt, calls, generatedFrom, invocations>>

\* reader.onloadend of handleImageSelect
imageLoaded ==
  /\ \E r \in BagToSet(readers) :
       /\ r.target = "main"
       /\ readers' = readers (-) SetToBag({r})
       /\ previewUrl' = Str(readAsDataURL(r.file))
  /\ generatedImage' = Null
  /\ generatedFrom' = Null
  /\ ServiceUnchanged
  /\ UNCHANGED <<processingState, selectedFile, referenceFile, referenceUrl, prompt, calls,
                 invocations>>

\* handleClearMain; the uploader offers it while it shows a preview.
handleClearMain ==
  /\ previewUrl # Null
  /\ selectedFile' = Null
  /\ previewUrl' = Null
  /\ generatedImage' = Null
  /\ generatedFrom' = Null
  /\ ServiceUnchanged
  /\ UNCHANGED <<processingState, referenceFile, referenceUrl, prompt, readers, calls,
                 invocations>>

handleReferenceSelect ==
  /\ referenceUrl = Null
  /\ BagCardinality(readers) < MaxReaders
  /\ \E f \in ReferenceFiles :
       /\ referenceFile' = f
       /\ readers' = readers (+) SetToBag({Reader("reference", f)})
  /\ ServiceUnchanged
  /\ UNCHANGED <<generatedImage, processingState, selectedFile, previewUrl, referenceUrl,
                 prompt, calls, generatedFrom, invocations>>

\* reader.onloadend of handleReferenceSelect
referenceLoaded ==
  /\ \E r \in BagToSet(readers) :
       /\ r.target = "reference"
       /\ readers' = readers (-) SetToBag({r})
       /\ referenceUrl' = Str(readAsDataURL(r.file))
  /\ ServiceUnchanged
  /\ UNCHANGED <<generatedImage, processingState, selectedFile, previewUrl, referenceFile,
                 prompt, calls, generatedFrom, invocations>>

handleClearReference ==
  /\ referenceUrl # Null
  /\ referenceFile' = Null
  /\ referenceUrl' = Null
  /\ ServiceUnchanged
  /\ UNCHANGED <<generatedImage, processingState, selectedFile, previewUrl, prompt, readers,
                 calls, generatedFrom, invocations>>

\* onRetry of the result display
onRetry ==
  /\ generatedImage # Null
  /\ generatedImage' = Null
  /\ generatedFrom' = Null
  /\ ServiceUnchanged
  /\ UNCHANGED <<processingState, selectedFile, previewUrl, referenceFile, referenceUrl,
                 prompt, readers, calls, invocations>>

\* The guard of handleGenerate.
canGenerate == Truthy(selectedFile) /\ Truthy(Str(trim(prompt)))

\* handleGenerate returning at its guard.
handleGenerateIgnored ==
  /\ invocations < MaxGenerates
  /\ ~canGenerate
  /\ invocations' = invocations + 1
  /\ ServiceUnchanged
  /\ UNCHANGED <<generatedImage, processingState, selectedFile, previewUrl, referenceFile,
                 referenceUrl, prompt, readers, calls, generatedFrom>>

\* handleGenerate up to its first await: the processing state is set and the
\* read of the source file starts.
handleGenerate ==
  /\ invocations < MaxGenerates
  /\ canGenerate
  /\ invocations' = invocations + 1
  /\ processingState' = Loading
  /\ calls' = Append(calls, [pc |-> "readMain", selectedFile |-> selectedFile,
                             referenceFile |-> referenceFile, prompt |-> prompt,
                             requests |-> <<>>, result |-> Pending])
  /\ ServiceUnchanged
  /\ UNCHANGED <<generatedImage, selectedFile, previewUrl, referenceFile, referenceUrl,
                 prompt, readers, generatedFrom>>

\* How the awaited editImageWithGemini settles, for each behaviour of the
\* remote service.
editImageResult == [rem \in BasicRemotes |-> editImageWithGemini(Plain, rem)]

\* fileToBase64(selectedFile) resolves: the reference file is read next, or
\* the service is called.
mainReadResolves ==
  /\ \E c \in 1..Len(calls) :
       /\ calls[c].pc = "readMain"
       /\ calls' = [calls EXCEPT ![c] =
                      IF Truthy(calls[c].referenceFile)
                      THEN [calls[c] EXCEPT !.pc = "readReference"]
                      ELSE callService(calls[c])]
  /\ ServiceUnchanged
  /\ UNCHANGED <<generatedImage, processingState, selectedFile, previewUrl, referenceFile,
                 referenceUrl, prompt, readers, generatedFrom, invocations>>

\* fileToBase64(referenceFile) resolves: the service is called.
referenceReadResolves ==
  /\ \E c \in 1..Len(calls) :
       /\ calls[c].pc = "readReference"
       /\ calls' = [calls EXCEPT ![c] = callService(calls[c])]
  /\ ServiceUnchanged
  /\ UNCHANGED <<generatedImage, processingState, selectedFile, previewUrl, referenceFile,
                 referenceUrl, prompt, readers, generatedFrom, invocations>>

\* A fileToBase64 rejects (reader.onerror): the catch block stores the
\* fallback, the event having no message.
readRejects ==
  /\ \E c \in 1..Len(calls) :
       /\ calls[c].pc \in {"readMain", "readReference"}
       /\ calls' = [calls EXCEPT ![c].pc = "done",
                                 ![c].result = [kind |-> "readError", value |-> ""]]
  /\ processingState' = FailedWith(Or(Undef, Str(AppFallback)))
  /\ ServiceUnchanged
  /\ UNCHANGED <<generatedImage, selectedFile, previewUrl, referenceFile, referenceUrl,
                 prompt, readers, generatedFrom, invocations>>

\* editImageWithGemini returns: the result and the processing state are set.
serviceReturns ==
  /\ \E c \in 1..Len(calls) : \E rem \in BasicRemotes :
       /\ calls[c].pc = "service"
       /\ editImageResult[rem].kind = "return"
       /\ calls' = [calls EXCEPT ![c].pc = "done",
                                 ![c].result = editImageResult[rem]]
       /\ generatedImage' = Str(editImageResult[rem].value)
       /\ generatedFrom' = calls[c].selectedFile
  /\ processingState' = Idle
  /\ ServiceUnchanged
  /\ UNCHANGED <<selectedFile, previewUrl, referenceFile, referenceUrl, prompt, readers,
                 invocations>>

\* editImageWithGemini throws: the catch block stores the message.
serviceThrows ==
  /\ \E c \in 1..Len(calls) : \E rem \in BasicRemotes :
       /\ calls[c].pc = "service"
       /\ editImageResult[rem].kind = "throw"
       /\ calls' = [calls EXCEPT ![c].pc = "done",
                                 ![c].result = editImageResult[rem]]
       /\ processingState' =
            FailedWith(Or(Str(editImageResult[rem].value), Str(AppFallback)))
  /\ ServiceUnchanged
  /\ UNCHANGED <<generatedImage, selectedFile, previewUrl, referenceFile, referenceUrl,
                 prompt, readers, generatedFrom, invocations>>

\* The steps by which a running handleGenerate call goes on.
Settle ==
  \/ mainReadResolves
  \/ referenceReadResolves
  \/ readRejects
  \/ serviceReturns
  \/ serviceThrows

NextApp ==
  \/ setPrompt
  \/ handleImageSelect
  \/ imageLoaded
  \/ handleClearMain
  \/ handleReferenceSelect
  \/ referenceLoaded
  \/ handleClearReference
  \/ onRetry
  \/ handleGenerateIgnored
  \/ handleGenerate
  \/ mainReadResolves
  \/ referenceReadResolves
  \/ readRejects
  \/ serviceReturns
  \/ serviceThrows

\* Every file read and every service call settles.
SpecApp == InitApp /\ [][NextApp]_vars /\ WF_vars(Settle)

(***************************************************************************)
(* Vocabulary of the properties                                            *)
(***************************************************************************)
Settled == pc \in {"settled", "done"} /\ outcome.kind # "pending"

Raised == Settled /\ remote.kind = "error"

Responded == Settled /\ remote.kind = "response"

\* The failure kinds, told apart by the message of the thrown error.
QuotaExceeded == outcome.kind = "throw" /\ StartsWith(outcome.value, "API quota exceeded")

ImageRefused == outcome.kind = "throw" /\ StartsWith(outcome.value, RefusedPrefix)

NoImageReturned == outcome.kind = "throw" /\ outcome.value = NoImageMessage

\* The unwrapped error object: error.error if present, else error.
Unwrapped(error) == IF error.error.t = "object" THEN error.error ELSE error

Present(x) == x.t \notin {"undefined", "null"} /\ x # Str("") /\ x # Num(0)

\* A field read from the unwrapped object, or from the outer error when the
\* unwrapped object lacks it.
Effective(error, f) ==
  IF Present(Unwrapped(error)[f]) THEN Unwrapped(error)[f] ELSE error[f]

MentionsQuota(m) ==
  m.t = "string" /\ (Includes(m.v, "quota") \/ Includes(m.v, "Quota exceeded"))

HasSignal(code, status, message) ==
  code = Num(429) \/ status = Str("RESOURCE_EXHAUSTED") \/ MentionsQuota(message)

UnwrappedSignal(error) ==
  HasSignal(Unwrapped(error).code, Unwrapped(error).status, Unwrapped(error).message)

EffectiveSignal(error) ==
  HasSignal(Effective(error, "code"), Effective(error, "status"), Effective(error, "message"))

TextOr(m, fallback) == IF Present(m) THEN m.v ELSE fallback

\* C1 as stated: a raised error is QuotaExceeded exactly when the unwrapped
\* error object carries one of the three signals (code 429, status
\* RESOURCE_EXHAUSTED, a message mentioning the quota), whatever the outer
\* wrapper holds.
C1_Original ==
  (Raised /\ service = QuotaAware) => (QuotaExceeded <=> UnwrappedSignal(remote.error))

\* C1, amended: a raised error is QuotaExceeded exactly when one of the three
\* signals is found reading each of code, status and message from the unwrapped
\* error object or, where the unwrapped object lacks that field, from the outer
\* error; every other raised error is Generic (it carries that message, or the
\* fixed fallback).  A message "Quota exceeded for this resource" with no code
\* is QuotaExceeded.
C1_QuotaClassification ==
  (Raised /\ service = QuotaAware) =>
     /\ QuotaExceeded <=> EffectiveSignal(remote.error)
     /\ ~QuotaExceeded =>
          /\ outcome.kind = "throw"
          /\ outcome.value = TextOr(Effective(remote.error, "message"), FailedMessage)
     /\ remote.error = ErrObject(Undef, Undef, Undef, Str("Quota exceeded for this resource"), Undef)
          => QuotaExceeded

\* C1 witness: the nested payload has no signal, the wrapper has code 429, and
\* the error was reported as QuotaExceeded.
C1_Witness ==
  /\ Raised /\ service = QuotaAware
  /\ remote.error.error.t = "object"
  /\ ~UnwrappedSignal(remote.error)
  /\ remote.error.code = Num(429)
  /\ QuotaExceeded

\* The parts of the first candidate of the response (empty when there are none).
FirstCandidateParts ==
  IF remote.kind = "response"
     /\ remote.response.candidates.t = "array"
     /\ Len(remote.response.candidates.v) > 0
     /\ remote.response.candidates.v[1].content.t = "object"
     /\ remote.response.candidates.v[1].content.parts.t = "array"
  THEN remote.response.candidates.v[1].content.parts.v
  ELSE <<>>

IsImagePart(p) == p.inlineData.t = "object"

IsTextPart(p) == p.text.t = "string" /\ p.text.v # ""

\* C2: when the first candidate has a part with inline image data, the call
\* returns "data:image/png;base64," followed by the data of the first such
\* part, whatever precedes or follows it and whatever the MIME types; no error.
C2_FirstImageWins ==
  Responded =>
    \A i \in 1..Len(FirstCandidateParts) :
      (IsImagePart(FirstCandidateParts[i])
         /\ \A j \in 1..(i - 1) : ~IsImagePart(FirstCandidateParts[j]))
      => /\ outcome.kind = "return"
         /\ outcome.value = "data:image/png;base64," \o FirstCandidateParts[i].inlineData.data.v

\* C2 witness: parts [text, image (jpeg), image] answered with the first image.
C2_Witness ==
  /\ Responded
  /\ Len(FirstCandidateParts) = 3
  /\ IsTextPart(FirstCandidateParts[1])
  /\ FirstCandidateParts[2] = InlinePart(Str("R0lGOD"), Str("image/jpeg"))
  /\ FirstCandidateParts[3] = InlinePart(Str("iVBOR"), Str("image/png"))
  /\ args.mimeType = Str("image/png")
  /\ outcome = [kind |-> "return", value |-> "data:image/png;base64,R0lGOD"]

\* The detail list the error carries (that of the unwrapped object, else the
\* outer one), as a sequence.
DetailList ==
  IF remote.kind = "error" /\ Effective(remote.error, "details").t = "array"
  THEN Effective(remote.error, "details").v
  ELSE <<>>

IsRetryEntry(d) ==
  d.type = Str("type.googleapis.com/google.rpc.RetryInfo")
    /\ d.retryDelay.t = "string" /\ d.retryDelay.v # ""

\* The first retry-info entry of the detail list carries this delay text.
RetryDelayIs(text) ==
  \E i \in 1..Len(DetailList) :
    /\ IsRetryEntry(DetailList[i])
    /\ DetailList[i].retryDelay.v = text
    /\ \A j \in 1..(i - 1) : ~IsRetryEntry(DetailList[j])

NoRetryEntry == \A i \in 1..Len(DetailList) : ~IsRetryEntry(DetailList[i])

\* The value of the delay DelayText(n, f), in hundredths of a second.
Hundredths(n, f) == 100 * n + (IF f = ".5" THEN 50 ELSE IF f = ".88" THEN 88 ELSE 0)

CeilHundredths(h) == (h + 99) \div 100

Plural(k) == IF k = 1 THEN "" ELSE "s"

QuotaRaised == Raised /\ service = QuotaAware /\ pc = "settled" /\ QuotaExceeded

\* What C3 says of the message for a delay of h hundredths of a second.
C3_Phrase(h) ==
  LET m == h \div 6000
      r == CeilHundredths(h % 6000)
  IN IF m > 0
     THEN /\ Includes(outcome.value, "Please wait " \o natToString(m) \o " minute")
          /\ r > 0 => Includes(outcome.value, " and " \o natToString(r) \o " second")
          /\ r = 0 => ~Includes(outcome.value, "second")
     ELSE /\ Includes(outcome.value,
                      "Please wait " \o natToString(CeilHundredths(h)) \o " second")
          /\ ~Includes(outcome.value, "minute")

\* C3: for a QuotaExceeded error with a retry-info delay "<n>s", the message
\* is built from minutes = floor(n / 60) and remaining = ceil(n mod 60): with
\* minutes > 0 it reads "<minutes> minute(s) and <remaining> second(s)", the
\* seconds clause omitted when remaining = 0; with minutes = 0 it reads
\* "<ceil(n)> second(s)" and has no minutes clause.  "125s" gives "2 minutes and
\* 5 seconds", "45s" gives "45 seconds".
C3_RetryMessage ==
  QuotaRaised =>
    /\ \A n \in 0..MaxDelaySeconds : \A f \in Fractions :
         RetryDelayIs(DelayText(n, f)) => C3_Phrase(Hundredths(n, f))
    /\ RetryDelayIs("125s") => Includes(outcome.value, " 2 minutes and 5 seconds ")
    /\ RetryDelayIs("45s") =>
         Includes(outcome.value, " 45 seconds ") /\ ~Includes(outcome.value, "minute")

\* C3 witness: a delay of "125s" reported as 2 minutes and 5 seconds.
C3_Witness ==
  /\ QuotaRaised
  /\ RetryDelayIs("125s")
  /\ Includes(outcome.value, "Please wait 2 minutes and 5 seconds before")

\* A decimal number followed by 's'.
WellFormed(text) ==
  LET n == digitRun(text)
      rest == SubSeq(text, n + 1, Len(text))
  IN /\ n > 0
     /\ \/ rest = "s"
        \/ /\ Len(rest) >= 3 /\ Head(rest) = "."
           /\ digitRun(Tail(rest)) = Len(rest) - 2
           /\ SubSeq(rest, Len(rest), Len(rest)) = "s"

\* C4: a QuotaExceeded error with no usable retry hint (no detail list, an
\* empty one, one with no retry-info entry, or a retry-info entry whose delay
\* is not a decimal number followed by 's') gets the generic "Please wait a few
\* minutes" message.
C4_NoHintGeneric ==
  QuotaRaised =>
    ((NoRetryEntry \/ \E d \in MalformedDelays : ~WellFormed(d) /\ RetryDelayIs(d))
       => outcome.value = GenericQuotaMessage)

\* C5: a response with no image part and at least one text part fails with
\* ImageRefused carrying that text, whatever the text says, and is never
\* reclassified by the function's own error handler.
C5_RefusalKept ==
  (Responded /\ \A i \in 1..Len(FirstCandidateParts) : ~IsImagePart(FirstCandidateParts[i])) =>
    \A i \in 1..Len(FirstCandidateParts) :
      (IsTextPart(FirstCandidateParts[i])
         /\ \A j \in 1..(i - 1) : ~IsTextPart(FirstCandidateParts[j]))
      => /\ ImageRefused
         /\ outcome.value = RefusedPrefix \o FirstCandidateParts[i].text.v

\* C6: a successful response with neither an image part nor a text part in its
\* first candidate fails with NoImageReturned, for every malformed shape
\* (candidates absent or empty, no content, no parts, empty parts).
C6_NoImageReturned ==
  (Responded
     /\ \A i \in 1..Len(FirstCandidateParts) :
          ~IsImagePart(FirstCandidateParts[i]) /\ ~IsTextPart(FirstCandidateParts[i]))
  => NoImageReturned

NonNull(x) == x.t \notin {"null", "undefined"}

NonEmptyString(x) == x.t = "string" /\ x.v # ""

Sent == pc # "start" /\ contents # <<>>

\* The parts C7 describes, the reference part included exactly when WithReference.
PartsFor(WithReference) ==
  <<[inlineData |-> [t |-> "object", data |-> args.base64Image, mimeType |-> args.mimeType],
     text |-> Undef]>>
  \o (IF WithReference
      THEN <<[inlineData |-> [t |-> "object", data |-> args.referenceImageBase64,
                              mimeType |-> args.referenceMimeType],
              text |-> Undef]>>
      ELSE <<>>)
  \o <<[inlineData |-> Undef, text |-> args.prompt]>>

\* C7 as stated: the parts sent are the primary image, then the reference
\* image if and only if both reference fields are non-null, then the prompt.
C7_Original ==
  Sent => contents =
            PartsFor(NonNull(args.referenceImageBase64) /\ NonNull(args.referenceMimeType))

\* C7, amended: the parts sent are the primary image first (data and MIME type
\* as given), then the reference image if and only if both reference fields are
\* non-null and non-empty strings, then exactly one text part holding the prompt
\* verbatim: 3 parts for such a pair, 2 parts otherwise; a call with one
\* reference field missing, or empty, sends the parts of the no-reference call
\* and raises no error.
C7_PartsSent ==
  Sent =>
    /\ contents = PartsFor(NonEmptyString(args.referenceImageBase64)
                             /\ NonEmptyString(args.referenceMimeType))
    /\ Len(contents) = (IF NonEmptyString(args.referenceImageBase64)
                           /\ NonEmptyString(args.referenceMimeType) THEN 3 ELSE 2)
    /\ contents[Len(contents)].text = args.prompt

\* C7 witness: an empty reference image with a MIME type, sent as two parts.
C7_Witness ==
  /\ Sent
  /\ args.referenceImageBase64 = Str("")
  /\ args.referenceMimeType = Str("image/webp")
  /\ Len(contents) = 2

\* A Generic failure: a raised error that was not reported as QuotaExceeded.
Generic == Raised /\ service = QuotaAware /\ outcome.kind = "throw" /\ ~QuotaExceeded

Failed == pc = "done" /\ outcome.kind # "return"

\* The error message is never empty, on any failure path and in App.
NonEmptyMessages ==
  /\ (Settled /\ outcome.kind = "throw") => outcome.value # ""
  /\ Failed => (processingState.error.t = "string" /\ processingState.error.v # "")

\* C8 as stated: every failure has a non-empty message; a Generic failure
\* carries the unwrapped error's message when present and the fixed fallback
\* otherwise; the error App stores is never empty.
C8_Original ==
  /\ NonEmptyMessages
  /\ Generic => outcome.value = TextOr(Unwrapped(remote.error).message, FailedMessage)

\* C8, amended: every failure has a non-empty message; a Generic failure
\* carries the unwrapped error's message when present, else the outer error's
\* message when present, and the fixed fallback only when neither has one; the
\* error App stores is never empty.
C8_NonEmptyMessage ==
  /\ NonEmptyMessages
  /\ Generic =>
       outcome.value =
         (IF Present(Unwrapped(remote.error).message) THEN Unwrapped(remote.error).message.v
          ELSE IF Present(remote.error.message) THEN remote.error.message.v
          ELSE "Failed to edit image using Gemini.")

\* C8 witness: the nested payload has no message, the wrapper has one, and the
\* failure carried the wrapper's message through to App.
C8_Witness ==
  /\ Failed /\ Generic
  /\ remote.error.error.t = "object"
  /\ ~Present(remote.error.error.message)
  /\ remote.error.message = Str("Network error")
  /\ processingState.error = Str("Network error")

\* C9: in every retry-delay message each unit is pluralized exactly when its
\* count is not 1, for every delay the parser accepts (0 seconds and fractions
\* of a second included).
C9_Pluralized ==
  QuotaRaised =>
    \A n \in 0..MaxDelaySeconds : \A f \in Fractions :
      RetryDelayIs(DelayText(n, f)) =>
        LET h == Hundredths(n, f)
            m == h \div 6000
            r == CeilHundredths(h % 6000)
            c == CeilHundredths(h)
        IN IF m > 0
           THEN /\ Includes(outcome.value,
                            " " \o natToString(m) \o " minute" \o Plural(m) \o " ")
                /\ r > 0 => Includes(outcome.value,
                                     " " \o natToString(r) \o " second" \o Plural(r) \o " ")
           ELSE Includes(outcome.value,
                         " " \o natToString(c) \o " second" \o Plural(c) \o " ")

\* C10: in every retry-delay message with a minutes clause the remaining
\* seconds shown are between 1 and 59, and minutes * 60 + remaining is the
\* smallest whole number of seconds not less than the delay; never "60 seconds".
C10_RemainingBelowMinute ==
  QuotaRaised =>
    \A n \in 0..MaxDelaySeconds : \A f \in Fractions :
      (RetryDelayIs(DelayText(n, f)) /\ Includes(outcome.value, " minute")) =>
        LET total == CeilHundredths(Hundredths(n, f))
        IN /\ ~Includes(outcome.value, " and 60 second")
           /\ Includes(outcome.value, "Please wait " \o natToString(total \div 60) \o " minute")
           /\ (total % 60 > 0) =>
                Includes(outcome.value, " and " \o natToString(total % 60) \o " second")
           /\ (total % 60 = 0) => ~Includes(outcome.value, "second")

(***************************************************************************)
(* Properties of App                                                       *)
(***************************************************************************)
\* C11: under every interleaving of the handlers and the completions of their
\* file reads and service calls, a non-null generatedImage was produced from
\* the currently selected source file: a generation started for an earlier
\* source never sets it after the source has been replaced or cleared.
C11_ResultOfSelectedSource == generatedImage # Null => generatedFrom = selectedFile

OnlyBlanks(s) == \A i \in 1..Len(s) : SubSeq(s, i, i) = " "

Invoked == invocations' = invocations + 1

Ended(c) == c <= Len(calls) /\ calls[c].pc = "done"

EndsNow(c) == c <= Len(calls) /\ calls[c].pc # "done" /\ calls'[c].pc = "done"

\* An invocation with no source file or a blank prompt changes nothing; any
\* other sets isLoading with no error and starts one call with the prompt as
\* typed.
C12_Invocation ==
  Invoked =>
    IF selectedFile = Null \/ OnlyBlanks(prompt)
    THEN UNCHANGED <<generatedImage, processingState, selectedFile, previewUrl,
                     referenceFile, referenceUrl, prompt, readers, calls, generatedFrom>>
    ELSE /\ processingState'.isLoading /\ processingState'.error = Null
         /\ Len(calls') = Len(calls) + 1
         /\ calls'[Len(calls')].prompt = prompt
         /\ calls'[Len(calls')].requests = <<>>

\* A call ends by setting isLoading to false with one of the two outcomes, and
\* an ended call does nothing more (no retry).
C12_Completion(c) ==
  /\ EndsNow(c) =>
       /\ ~processingState'.isLoading
       /\ IF calls'[c].result.kind = "return"
          THEN /\ generatedImage' = Str(calls'[c].result.value)
               /\ StartsWith(generatedImage'.v, "data:image/png;base64,")
               /\ processingState'.error = Null
          ELSE /\ generatedImage' = generatedImage
               /\ processingState'.error.t = "string"
               /\ processingState'.error.v # ""
               /\ processingState'.error.v =
                    IF calls'[c].result.kind = "throw" THEN calls'[c].result.value
                    ELSE AppFallback
  /\ Ended(c) => calls'[c] = calls[c]
  /\ c <= Len(calls) => Len(calls'[c].requests) >= Len(calls[c].requests)

\* The service calls a handleGenerate call has made carry the prompt untrimmed.
PromptAsTyped(c) ==
  \A i \in 1..Len(calls[c].requests) : calls[c].requests[i].prompt = Str(calls[c].prompt)

\* C12 as stated: every handleGenerate call that passed the guard makes
\* exactly one service call, with the prompt untrimmed.
C12_Original ==
  \A c \in 1..Len(calls) :
    /\ PromptAsTyped(c)
    /\ Ended(c) => Len(calls[c].requests) = 1

\* The service calls of call c, amended: at most one; exactly one once the
\* file reads have succeeded; none when a file read failed.
C12_ServiceCalls(c) ==
  /\ PromptAsTyped(c)
  /\ Len(calls[c].requests) <= 1
  /\ calls[c].pc \in {"readMain", "readReference"} => calls[c].requests = <<>>
  /\ calls[c].pc = "service" => Len(calls[c].requests) = 1
  /\ Ended(c) => (Len(calls[c].requests) = 1 <=> calls[c].result.kind # "readError")

\* C12, amended: handleGenerate does nothing when no source file is selected
\* or the prompt is empty after trimming; otherwise it sets isLoading to true
\* with error null and makes at most one service call, passing the prompt
\* untrimmed: exactly one when the file reads succeed, none when a file read
\* fails (the failure message is then the fallback of App).  Provided the file reads and the service call settle, it eventually
\* sets isLoading to false with exactly one of two outcomes: on success
\* generatedImage is the returned data URL and error is null, on failure error
\* is the failure message and generatedImage is left unchanged.  The call is
\* never retried.
C12_HandleGenerate ==
  /\ [][C12_Invocation /\ \A c \in 1..MaxGenerates : C12_Completion(c)]_vars
  /\ [](\A c \in 1..Len(calls) : C12_ServiceCalls(c))
  /\ \A c \in 1..MaxGenerates : (c <= Len(calls)) ~> Ended(c)
  /\ processingState.isLoading ~> ~processingState.isLoading

\* C12 witness: a first call, made with the prompt " red hoodie ", has ended
\* with the returned data URL after exactly one service call; a second call
\* has then ended on a failed file read without a service call, leaving the
\* result of the first.
C12_Witness ==
  /\ Len(calls) = 2
  /\ Ended(1) /\ Ended(2)
  /\ calls[1].result.kind = "return"
  /\ Len(calls[1].requests) = 1
  /\ calls[1].requests[1].prompt = Str(" red hoodie ")
  /\ calls[2].result.kind = "readError"
  /\ calls[2].requests = <<>>
  /\ generatedImage = Str(calls[1].result.value)
  /\ processingState = FailedWith(Str(AppFallback))

====
